---- MODULE Spec2Model ----
(***************************************************************************)
(* Model of the K210 KPU driver (lib/bsp/device/kpu.cpp) and of the        *)
(* driver helpers it uses (lib/freertos/kernel/driver_impl.cpp).           *)
(*                                                                         *)
(* Tasks call model_load_from_buffer, run and get_output on the single     *)
(* device dev0_driver.  The hardware side (DMA engine, KPU layer engine,   *)
(* KPU interrupt lines) is modelled by separate actions that interleave    *)
(* with the steps of run.                                                  *)
(***************************************************************************)
EXTENDS Integers, Sequences, FiniteSets, TLC

(***************************************************************************)
(* Bounds of the model.                                                    *)
(***************************************************************************)
MaxCalls == 2        \* run / get_output calls made in one behaviour
MaxHandles == 2      \* model_load_from_buffer calls that succeed
NumChannels == 1     \* channels of the DMA allocator

Tasks == {"t1", "t2"}
NoTask == "none"
NullHandle == 0      \* handle value dma_open_free yields when no channel is free

(***************************************************************************)
(* Layer type tags (the closed set of ai_step's switch).                   *)
(***************************************************************************)
KL_K210_CONV == "KL_K210_CONV"
KL_QUANTIZE == "KL_QUANTIZE"
KL_SOFTMAX == "KL_SOFTMAX"
KL_K210_UPLOAD == "KL_K210_UPLOAD"

(***************************************************************************)
(* kmodel artifacts.  Sizes of the three fixed records of the container.   *)
(***************************************************************************)
HeaderSize == 28
OutputDescSize == 8
LayerHeaderSize == 8

\* a convolutional layer: header, body flags and the i_row_wid field of its
\* hardware argument block
Conv(mmo, wid) ==
    [type |-> KL_K210_CONV, body_size |-> 24, main_mem_out |-> mmo, i_row_wid |-> wid]
\* an auxiliary layer of type ty with a body of sz bytes
Aux(ty, sz) ==
    [type |-> ty, body_size |-> sz, main_mem_out |-> FALSE, i_row_wid |-> 0]

Kmodel(ver, arch, mmu, outs, lays) ==
    [version |-> ver, arch |-> arch, output_count |-> Len(outs),
     layers_length |-> Len(lays), main_mem_usage |-> mmu,
     outputs |-> outs, layers |-> lays]

Out(a, s) == [address |-> a, size |-> s]

\* The buffers callers pass to model_load_from_buffer.
Buffers == 1..8
Buffer(b) ==
    CASE b = 1 -> Kmodel(3, 0, 16, <<Out(0, 16)>>, <<Conv(FALSE, 63)>>)
      [] b = 2 -> Kmodel(3, 0, 32, <<Out(0, 4), Out(16, 16)>>,
                         <<Conv(FALSE, 7), Aux(KL_SOFTMAX, 12), Conv(TRUE, 15)>>)
      [] b = 3 -> Kmodel(3, 0, 8, <<Out(4, 8)>>,
                         <<Conv(TRUE, 127), Conv(FALSE, 31), Aux(KL_QUANTIZE, 20),
                           Aux(KL_SOFTMAX, 12)>>)
      [] b = 4 -> Kmodel(3, 0, 8, <<Out(0, 8)>>,
                         <<Conv(TRUE, 31), Aux(KL_K210_UPLOAD, 20)>>)
      [] b = 5 -> Kmodel(3, 0, 8, <<>>,
                         <<Aux(KL_K210_UPLOAD, 20), Conv(FALSE, 63)>>)
      [] b = 6 -> Kmodel(2, 0, 8, <<Out(0, 8)>>, <<Conv(FALSE, 63)>>)
      [] b = 7 -> Kmodel(3, 1, 8, <<Out(0, 8)>>, <<Conv(FALSE, 63)>>)
      [] b = 8 -> Kmodel(4, 1, 8, <<Out(0, 8)>>, <<Conv(FALSE, 63)>>)

(***************************************************************************)
(* Pointers are (region, offset) pairs: region <<"model", b>> is the model *)
(* buffer b, region <<"scratch", h>> the arena container h allocated.      *)
(***************************************************************************)
Ptr(region, off) == [region |-> region, off |-> off]
NullPtr == Ptr(<<"null", 0>>, 0)

\* the caller's data and size variables while get_output has not written them
Unset == [data |-> Ptr(<<"unset", 0>>, 0), size |-> -1]
\* the value of ret while the call has not returned (a call returns 0 or -1)
NotReturned == -1 - 1
PtrAdd(p, n) == [p EXCEPT !.off = p.off + n]
ModelOf(p) == Buffer(p.region[2])

RECURSIVE BodyOffset(_, _)
\* offset, from the start of the body stream, of the body of layer i (0-based)
BodyOffset(lays, i) ==
    IF i = 0 THEN 0 ELSE BodyOffset(lays, i - 1) + lays[i].body_size

Garbage == [type |-> "garbage", body_size |-> 0, main_mem_out |-> FALSE, i_row_wid |-> 0]

\* *(const kpu_model_layer_header_t *)p : the layer header stored at p
ReadLayerHeader(p) ==
    LET m == ModelOf(p)
        rel == p.off - HeaderSize - OutputDescSize * m.output_count
        i == rel \div LayerHeaderSize
    IN  IF p.region[1] = "model" /\ rel >= 0 /\ rel % LayerHeaderSize = 0
           /\ i < m.layers_length
        THEN m.layers[i + 1] ELSE Garbage

\* *(const kpu_model_conv_layer_argument_t *)p : the layer body stored at p
ReadLayerBody(p) ==
    LET m == ModelOf(p)
        rel == p.off - HeaderSize - OutputDescSize * m.output_count
                     - LayerHeaderSize * m.layers_length
        hit == {i \in 0..(m.layers_length - 1) : BodyOffset(m.layers, i) = rel}
    IN  IF p.region[1] = "model" /\ hit # {}
        THEN m.layers[(CHOOSE i \in hit : TRUE) + 1] ELSE Garbage

\* *(const kpu_model_output_t *)p : the output descriptor stored at p
ReadOutput(p) ==
    LET m == ModelOf(p)
        rel == p.off - HeaderSize
        i == rel \div OutputDescSize
    IN  IF p.region[1] = "model" /\ rel >= 0 /\ rel % OutputDescSize = 0
           /\ i < m.output_count
        THEN m.outputs[i + 1] ELSE Out(0, 0)

(***************************************************************************)
(* k_model_context: the container model_load_from_buffer builds.           *)
(***************************************************************************)
HeaderCheck_Or(header) == header.version = 3 \/ header.arch = 0

\* the test of the constructor: version == 3 && arch == 0
HeaderCheck(header) == header.version = 3 /\ header.arch = 0

NoObject ==
    [model_buffer_ |-> NullPtr, output_count_ |-> 0, outputs_ |-> NullPtr,
     layer_headers_ |-> NullPtr, layers_length_ |-> 0, body_start_ |-> NullPtr,
     main_buffer_ |-> NullPtr, main_size_ |-> 0]

\* the constructor, for buffer b, as the h-th object allocated: thrown says
\* whether it throws std::runtime_error, obj is the object built otherwise
k_model_context(b, h) ==
    LET header == Buffer(b)
        base == Ptr(<<"model", b>>, 0)
        outs == PtrAdd(base, HeaderSize)
        lays == PtrAdd(outs, OutputDescSize * header.output_count)
    IN  IF HeaderCheck(header)
        THEN [thrown |-> FALSE,
              obj |-> [model_buffer_ |-> base,
                       output_count_ |-> header.output_count,
                       outputs_ |-> outs,
                       layer_headers_ |-> lays,
                       layers_length_ |-> header.layers_length,
                       body_start_ |-> PtrAdd(lays, LayerHeaderSize * header.layers_length),
                       main_buffer_ |-> Ptr(<<"scratch", h>>, 0),
                       main_size_ |-> header.main_mem_usage]]
        ELSE [thrown |-> TRUE, obj |-> NoObject]

get_WrongBuffer(obj, ctx) ==
    [ctx EXCEPT !.body_start = obj.body_start_,
                !.model_buffer = obj.model_buffer_,
                !.main_buffer = obj.model_buffer_,
                !.layer_headers = obj.layer_headers_,
                !.layers_length = obj.layers_length_,
                !.output_count = obj.output_count_,
                !.outputs = obj.outputs_]

\* k_model_context::get : copies the container's fields into ctx, leaving
\* current_layer and current_body as they are
get(obj, ctx) ==
    [ctx EXCEPT !.body_start = obj.body_start_,
                !.model_buffer = obj.model_buffer_,
                !.main_buffer = obj.main_buffer_,
                !.layer_headers = obj.layer_headers_,
                !.layers_length = obj.layers_length_,
                !.output_count = obj.output_count_,
                !.outputs = obj.outputs_]

(***************************************************************************)
(* State.                                                                  *)
(***************************************************************************)
VARIABLES
    pc,                \* position of each task inside its current call
    op,                \* the call each task is in (or made last)
    ret,               \* what the last call of each task returned
    out,               \* the caller's data / size variables of get_output
    calls,             \* run / get_output calls made so far
    handles,           \* objects behind the handles system_alloc_handle gave
    load_thrown,       \* whether the last model_load_from_buffer threw
    free_mutex_,       \* holder of the driver's mutex
    completion_event_, \* the binary semaphore: 1 when a token is available
    done_flag_,
    ctx_,
    dma_ch_,
    dma_open,          \* DMA allocator: channels handed out and not closed
    dma_xfer,          \* asynchronous DMA transfers in flight
    interrupt_mask,    \* kpu_.interrupt_mask: 1 masks the line
    interrupt_status,  \* latched KPU interrupt lines (cleared by interrupt_clear)
    irq_enable,        \* pic_set_irq_enable(IRQN_AI_INTERRUPT, .)
    kpu_fifo,          \* layers programmed into the KPU and not finished
    critical_nesting,  \* depth of portENTER_CRITICAL: interrupts are off above 0
    dispatched,        \* history: layer indices ai_step dispatched in this run
    done_calls,        \* history: calls of kpu_done in this run
    staged,            \* history: input staged on the CPU in this run
    dma_issued,        \* history: DMA transfers issued in this run
    takes,             \* history: xSemaphoreTake calls of run that returned, in this run
    used_count_,       \* free_object_access: the atomic use count
    clock_enabled,     \* sysctl: whether the accelerator clock runs
    apc,               \* position of each task inside open() / close()
    held,              \* opens of each task that it has not closed yet
    opens_made,        \* open() calls made so far
    overlapped,        \* history: an open / close ran while another was in progress
    kernel_in,         \* arguments and input bytes of the kernel under study
    kernel_out,        \* bytes the kernel has written, by destination offset
    kernel_reads,      \* source elements the kernel has read
    kernel_pc          \* how far the kernel under study has run

vars == <<pc, op, ret, out, calls, handles, load_thrown, free_mutex_, completion_event_,
          done_flag_, ctx_, dma_ch_, dma_open, dma_xfer, interrupt_mask,
          interrupt_status, irq_enable, kpu_fifo, critical_nesting, dispatched,
          done_calls, staged, dma_issued, takes, used_count_, clock_enabled, apc, held, opens_made,
          overlapped, kernel_in, kernel_out, kernel_reads, kernel_pc>>

task_vars == <<pc, op, ret, out, calls>>
hw_vars == <<dma_xfer, interrupt_mask, interrupt_status, irq_enable, kpu_fifo>>
hist_vars == <<dispatched, done_calls, staged, dma_issued, takes>>
access_vars == <<used_count_, clock_enabled, apc, held, opens_made, overlapped>>
\* the state outside the inference path of the driver
kernel_vars == <<kernel_in, kernel_out, kernel_reads, kernel_pc>>
side_vars == <<access_vars, kernel_vars>>
\* the state of the inference path of the driver
kpu_vars == <<task_vars, handles, load_thrown, free_mutex_, completion_event_,
              done_flag_, ctx_, dma_ch_, dma_open, hw_vars, critical_nesting, hist_vars>>

Lines(c, e, f) ==
    [calc_done_int |-> c, layer_cfg_almost_empty_int |-> e,
     layer_cfg_almost_full_int |-> f]

\* positions at which a task is between the constructor and the destructor
\* of the semaphore_lock of COMMON_ENTRY
Body == {"run_prime", "run_input", "run_crit", "run_crit_exit", "run_loop",
         "run_step", "get_output", "unlock"}

NoOp == [name |-> "none", handle |-> 0, index |-> 0]

\* the driver after its construction and install
DriverInit ==
    /\ pc = [t \in Tasks |-> "idle"]
    /\ op = [t \in Tasks |-> NoOp]
    /\ ret = [t \in Tasks |-> NotReturned]
    /\ out = [t \in Tasks |-> Unset]
    /\ calls = 0
    /\ handles = <<>>
    /\ load_thrown = FALSE
    /\ free_mutex_ = NoTask
    /\ completion_event_ = 0
    /\ done_flag_ = 0
    /\ ctx_ = [model_buffer |-> NullPtr, main_buffer |-> NullPtr,
               body_start |-> NullPtr, layer_headers |-> NullPtr,
               outputs |-> NullPtr, layers_length |-> 0, output_count |-> 0,
               current_layer |-> 0, current_body |-> NullPtr]
    /\ dma_ch_ = NullHandle
    /\ dma_open = {}
    /\ dma_xfer = <<>>
    /\ interrupt_mask = Lines(1, 1, 1)
    /\ interrupt_status = Lines(0, 0, 0)
    /\ irq_enable = FALSE
    /\ kpu_fifo = <<>>
    /\ critical_nesting = 0
    /\ dispatched = <<>>
    /\ done_calls = 0
    /\ staged = FALSE
    /\ dma_issued = 0
    /\ takes = 0
    /\ used_count_ = 0
    /\ clock_enabled = FALSE
    /\ apc = [t \in Tasks |-> "idle"]
    /\ held = [t \in Tasks |-> 0]
    /\ opens_made = 0
    /\ overlapped = FALSE

\* memory of which no byte has been written
NoMem == [a \in {} |-> 0]

\* no kernel is under study
KernelIdle ==
    /\ kernel_in = [kernel |-> "none"]
    /\ kernel_out = NoMem
    /\ kernel_reads = {}
    /\ kernel_pc = "none"

Init == DriverInit /\ KernelIdle

(***************************************************************************)
(* model_load_from_buffer                                                  *)
(***************************************************************************)
\* make_object<k_model_context>(buffer), then system_alloc_handle: a rejected
\* header throws out of the constructor and no handle is allocated.  The call
\* reads and writes nothing of the driver and handles are interchangeable, so
\* the models are loaded before the first run or get_output, each buffer once,
\* in the order of the buffers; a rejected buffer can be offered at any point.
model_load_from_buffer(b) ==
    LET made == k_model_context(b, Len(handles) + 1)
    IN  /\ calls = 0
        /\ \A t \in Tasks : pc[t] = "idle"
        /\ \A h \in 1..Len(handles) :
              handles[h].model_buffer_.region[2] < b \/ made.thrown
        /\ load_thrown' = made.thrown
        /\ IF made.thrown
           THEN UNCHANGED handles
           ELSE /\ Len(handles) < MaxHandles
                /\ handles' = Append(handles, made.obj)
        /\ UNCHANGED <<task_vars, free_mutex_, completion_event_, done_flag_,
                       ctx_, dma_ch_, dma_open, hw_vars, hist_vars, side_vars,
                       critical_nesting>>

(***************************************************************************)
(* Entry and exit of run and get_output: COMMON_ENTRY.                     *)
(***************************************************************************)
\* the output indices callers ask for: below and not below every
\* output_count of the buffers
Indices == {0, 1}

\* a task calls run(handle, src) or get_output(handle, index, &data, &size)
Call(t) ==
    /\ pc[t] = "idle"
    /\ calls < MaxCalls
    /\ \E name \in {"run", "get_output"}, h \in 1..Len(handles), i \in Indices :
          /\ name = "run" => i = 0
          /\ op' = [op EXCEPT ![t] = [name |-> name, handle |-> h, index |-> i]]
    /\ pc' = [pc EXCEPT ![t] = "lock"]
    /\ calls' = calls + 1
    /\ UNCHANGED <<ret, out, handles, load_thrown, side_vars, critical_nesting, free_mutex_, completion_event_, done_flag_, ctx_,
                   dma_ch_, dma_open, hw_vars, hist_vars>>

semaphore_lock_NoWait(t) ==
    /\ pc[t] = "lock"
    /\ free_mutex_' = t
    /\ pc' = [pc EXCEPT ![t] = IF op[t].name = "run" THEN "run_prime" ELSE "get_output"]
    /\ UNCHANGED <<op, ret, out, calls, handles, load_thrown, side_vars, critical_nesting, completion_event_, done_flag_,
                   ctx_, dma_ch_, dma_open, hw_vars, hist_vars>>

\* semaphore_lock::semaphore_lock : xSemaphoreTake(free_mutex_, portMAX_DELAY)
semaphore_lock(t) ==
    /\ pc[t] = "lock"
    /\ free_mutex_ = NoTask
    /\ free_mutex_' = t
    /\ pc' = [pc EXCEPT ![t] = IF op[t].name = "run" THEN "run_prime" ELSE "get_output"]
    /\ UNCHANGED <<op, ret, out, calls, handles, load_thrown, side_vars, critical_nesting, completion_event_, done_flag_,
                   ctx_, dma_ch_, dma_open, hw_vars, hist_vars>>

semaphore_unlock_Leak(t) ==
    /\ pc[t] = "unlock"
    /\ pc' = [pc EXCEPT ![t] = "returned"]
    /\ UNCHANGED <<op, ret, out, calls, handles, load_thrown, side_vars, critical_nesting, free_mutex_, completion_event_,
                   done_flag_, ctx_, dma_ch_, dma_open, hw_vars, hist_vars>>

\* semaphore_lock::~semaphore_lock : xSemaphoreGive, run on every return
semaphore_unlock(t) ==
    /\ pc[t] = "unlock"
    /\ free_mutex_' = NoTask
    /\ pc' = [pc EXCEPT ![t] = "returned"]
    /\ UNCHANGED <<op, ret, out, calls, handles, load_thrown, side_vars, critical_nesting, completion_event_, done_flag_,
                   ctx_, dma_ch_, dma_open, hw_vars, hist_vars>>

\* the caller has the result of its call and is free to make another
Return(t) ==
    /\ pc[t] = "returned"
    /\ pc' = [pc EXCEPT ![t] = "idle"]
    /\ op' = [op EXCEPT ![t] = NoOp]
    /\ ret' = [ret EXCEPT ![t] = NotReturned]
    /\ out' = [out EXCEPT ![t] = Unset]
    /\ UNCHANGED <<calls, handles, load_thrown, side_vars, critical_nesting, free_mutex_, completion_event_,
                   done_flag_, ctx_, dma_ch_, dma_open, hw_vars, hist_vars>>

(***************************************************************************)
(* get_output                                                              *)
(***************************************************************************)
IndexCheck_Off(index, count) == index > count

\* the range test of get_output: index >= ctx_.output_count
IndexCheck(index, count) == index >= count

get_output(t) ==
    LET c == get(handles[op[t].handle], ctx_)
        output == ReadOutput(PtrAdd(c.outputs, OutputDescSize * op[t].index))
    IN  /\ pc[t] = "get_output"
        /\ ctx_' = c
        /\ IF IndexCheck(op[t].index, c.output_count)
           THEN /\ ret' = [ret EXCEPT ![t] = -1]
                /\ UNCHANGED out
           ELSE /\ out' = [out EXCEPT ![t] =
                              [data |-> PtrAdd(c.main_buffer, output.address),
                               size |-> output.size]]
                /\ ret' = [ret EXCEPT ![t] = 0]
        /\ pc' = [pc EXCEPT ![t] = "unlock"]
        /\ UNCHANGED <<op, calls, handles, load_thrown, side_vars, critical_nesting, free_mutex_, completion_event_,
                       done_flag_, dma_ch_, dma_open, hw_vars, hist_vars>>

(***************************************************************************)
(* The DMA allocator and engine, as run uses them.                         *)
(***************************************************************************)
\* dma_open_free : the handle of a channel nobody holds, NullHandle if none
dma_open_free ==
    IF \E ch \in 1..NumChannels : ch \notin dma_open
    THEN CHOOSE ch \in 1..NumChannels :
            ch \notin dma_open /\ \A o \in 1..NumChannels : o \notin dma_open => ch <= o
    ELSE NullHandle

\* dma_transmit_async(ch, ..., completion_event_) : the transfer is in flight
dma_transmit_async(ch, kind, layer) ==
    /\ dma_xfer' = Append(dma_xfer, [ch |-> ch, kind |-> kind, layer |-> layer])
    /\ dma_issued' = dma_issued + 1

(***************************************************************************)
(* run, up to the layer loop.                                              *)
(***************************************************************************)
FirstLayerCheck_None(type) == FALSE

\* the test of run: first_layer_header->type != KL_K210_CONV
FirstLayerCheck(type) == type # KL_K210_CONV

ResetCursor_LayerOnly(c) == [c EXCEPT !.current_layer = 0]

\* run : ctx_.current_layer = 0; ctx_.current_body = ctx_.body_start;
ResetCursor(c) == [c EXCEPT !.current_layer = 0, !.current_body = c.body_start]

\* run, from system_handle_to_object to the test of the first layer header
run_prime(t) ==
    LET c == ResetCursor(get(handles[op[t].handle], ctx_))
        ch == dma_open_free
        first_layer_header == ReadLayerHeader(c.layer_headers)
    IN  /\ pc[t] = "run_prime"
        /\ ctx_' = c
        /\ dma_ch_' = ch
        /\ dma_open' = IF ch = NullHandle THEN dma_open ELSE dma_open \cup {ch}
        /\ interrupt_status' = Lines(0, 0, 0)
        /\ interrupt_mask' = Lines(1, 0, 1)
        /\ irq_enable' = TRUE
        /\ dispatched' = <<>>
        /\ done_calls' = 0
        /\ staged' = FALSE
        /\ dma_issued' = 0
        /\ takes' = 0
        /\ IF FirstLayerCheck(first_layer_header.type)
           THEN /\ ret' = [ret EXCEPT ![t] = -1]
                /\ pc' = [pc EXCEPT ![t] = "unlock"]
           ELSE /\ pc' = [pc EXCEPT ![t] = "run_input"]
                /\ UNCHANGED ret
        /\ UNCHANGED <<op, out, calls, handles, load_thrown, side_vars, critical_nesting, free_mutex_, completion_event_,
                       done_flag_, dma_xfer, kpu_fifo>>

\* run, the choice of the input path: kpu_input_with_padding on the CPU, or
\* kpu_input_dma
run_input(t) ==
    LET first_layer == ReadLayerBody(ctx_.body_start)
    IN  /\ pc[t] = "run_input"
        /\ IF (first_layer.i_row_wid + 1) % 64 # 0
           THEN /\ staged' = TRUE
                /\ pc' = [pc EXCEPT ![t] = "run_crit"]
                /\ UNCHANGED <<dma_xfer, dma_issued>>
           ELSE /\ dma_transmit_async(dma_ch_, "input", -1)
                /\ pc' = [pc EXCEPT ![t] = "run_loop"]
                /\ UNCHANGED staged
        /\ UNCHANGED <<op, ret, out, calls, handles, load_thrown, side_vars, critical_nesting, free_mutex_, completion_event_,
                       done_flag_, ctx_, dma_ch_, dma_open, interrupt_mask,
                       interrupt_status, irq_enable, kpu_fifo, dispatched, done_calls,
                       takes>>

(***************************************************************************)
(* The layer loop: kpu_conv, kpu_done, ai_step and the loop of run.        *)
(***************************************************************************)
\* kpu_conv : arm the completion source of the layer, then kpu_send_layer
kpu_conv(layer_body, cnt_layer_id) ==
    LET arg == ReadLayerBody(layer_body)
    IN  /\ IF arg.main_mem_out
           THEN /\ dma_transmit_async(dma_ch_, "output", cnt_layer_id)
                /\ UNCHANGED interrupt_mask
           ELSE /\ interrupt_mask' = Lines(0, 1, 1)
                /\ UNCHANGED <<dma_xfer, dma_issued>>
        /\ kpu_fifo' = Append(kpu_fifo, [layer |-> cnt_layer_id,
                                         main_mem_out |-> arg.main_mem_out])

kpu_done_NoMask ==
    /\ interrupt_status' = Lines(0, 0, 0)
    /\ UNCHANGED interrupt_mask
    /\ done_flag_' = 1
    /\ done_calls' = done_calls + 1

\* kpu_done : clear and mask the three interrupts, flag completion
kpu_done ==
    /\ interrupt_status' = Lines(0, 0, 0)
    /\ interrupt_mask' = Lines(1, 1, 1)
    /\ done_flag_' = 1
    /\ done_calls' = done_calls + 1

\* ai_step returning r: dispatch the layer under the cursor
ai_step(r) ==
    LET cnt_layer_id == ctx_.current_layer
        layer_body == ctx_.current_body
        cnt_layer_header == ReadLayerHeader(
            PtrAdd(ctx_.layer_headers, LayerHeaderSize * cnt_layer_id))
    IN  /\ cnt_layer_header.type # "garbage"
        /\ ctx_' = [ctx_ EXCEPT
                       !.current_layer = cnt_layer_id + 1,
                       !.current_body = PtrAdd(layer_body, cnt_layer_header.body_size)]
        /\ dispatched' = Append(dispatched, cnt_layer_id)
        /\ IF cnt_layer_header.type = KL_K210_CONV
           THEN /\ kpu_conv(layer_body, cnt_layer_id)
                /\ r = 0
                /\ UNCHANGED <<interrupt_status, done_flag_, done_calls>>
           ELSE /\ UNCHANGED <<kpu_fifo, dma_xfer, dma_issued>>
                /\ IF cnt_layer_id # ctx_.layers_length - 1
                   THEN /\ r = 1
                        /\ UNCHANGED <<interrupt_mask, interrupt_status, done_flag_,
                                       done_calls>>
                   ELSE /\ kpu_done
                        /\ r = 0

ai_step_not_isr_NoExit(t) ==
    /\ pc[t] = "run_crit"
    /\ critical_nesting' = critical_nesting + 1
    /\ \E r \in {0, 1} : ai_step(r)
    /\ pc' = [pc EXCEPT ![t] = "run_loop"]
    /\ UNCHANGED <<op, ret, out, calls, handles, load_thrown, side_vars, free_mutex_,
                   completion_event_, dma_ch_, dma_open, irq_enable, staged, takes>>

\* ai_step_not_isr : portENTER_CRITICAL, then one ai_step, whose result is
\* dropped
ai_step_not_isr(t) ==
    /\ pc[t] = "run_crit"
    /\ critical_nesting' = critical_nesting + 1
    /\ \E r \in {0, 1} : ai_step(r)
    /\ pc' = [pc EXCEPT ![t] = "run_crit_exit"]
    /\ UNCHANGED <<op, ret, out, calls, handles, load_thrown, side_vars, free_mutex_,
                   completion_event_, dma_ch_, dma_open, irq_enable, staged, takes>>

\* ai_step_not_isr : vPortExitCritical, then back in run
vPortExitCritical(t) ==
    /\ pc[t] = "run_crit_exit"
    /\ critical_nesting' = critical_nesting - 1
    /\ pc' = [pc EXCEPT ![t] = "run_loop"]
    /\ UNCHANGED <<op, ret, out, calls, handles, load_thrown, side_vars, free_mutex_,
                   completion_event_, done_flag_, ctx_, dma_ch_, dma_open, hw_vars,
                   hist_vars>>

\* run : xSemaphoreTake(completion_event_) inside while (!done_flag_)
run_take(t) ==
    /\ pc[t] = "run_loop"
    /\ done_flag_ = 0
    /\ completion_event_ = 1
    /\ completion_event_' = 0
    /\ takes' = takes + 1
    /\ IF ctx_.current_layer # ctx_.layers_length
       THEN /\ pc' = [pc EXCEPT ![t] = "run_step"]
            /\ UNCHANGED <<done_flag_, interrupt_mask, interrupt_status, done_calls>>
       ELSE /\ kpu_done
            /\ UNCHANGED pc
    /\ UNCHANGED <<op, ret, out, calls, handles, load_thrown, side_vars, critical_nesting, free_mutex_, ctx_, dma_ch_,
                   dma_open, dma_xfer, irq_enable, kpu_fifo, dispatched, staged,
                   dma_issued>>

run_step_Suspend(t) ==
    /\ pc[t] = "run_step"
    /\ \E r \in {0, 1} :
          /\ ai_step(r)
          /\ pc' = [pc EXCEPT ![t] = "run_loop"]
    /\ UNCHANGED <<op, ret, out, calls, handles, load_thrown, side_vars, critical_nesting,
                   free_mutex_, completion_event_, dma_ch_, dma_open, irq_enable, staged,
                   takes>>

\* run : while (ai_step() == 1) ;
run_step(t) ==
    /\ pc[t] = "run_step"
    /\ \E r \in {0, 1} :
          /\ ai_step(r)
          /\ pc' = [pc EXCEPT ![t] = IF r = 1 THEN "run_step" ELSE "run_loop"]
    /\ UNCHANGED <<op, ret, out, calls, handles, load_thrown, side_vars, critical_nesting, free_mutex_, completion_event_,
                   dma_ch_, dma_open, irq_enable, staged, takes>>

run_return_KeepFlag(t) ==
    /\ pc[t] = "run_loop"
    /\ done_flag_ # 0
    /\ ret' = [ret EXCEPT ![t] = 0]
    /\ pc' = [pc EXCEPT ![t] = "unlock"]
    /\ UNCHANGED <<op, out, calls, handles, load_thrown, side_vars, critical_nesting, free_mutex_,
                   completion_event_, done_flag_, ctx_, dma_ch_, dma_open, hw_vars,
                   hist_vars>>

\* run : the loop ends, done_flag_ = 0, return 0
run_return(t) ==
    /\ pc[t] = "run_loop"
    /\ done_flag_ # 0
    /\ done_flag_' = 0
    /\ ret' = [ret EXCEPT ![t] = 0]
    /\ pc' = [pc EXCEPT ![t] = "unlock"]
    /\ UNCHANGED <<op, out, calls, handles, load_thrown, side_vars, critical_nesting, free_mutex_, completion_event_, ctx_,
                   dma_ch_, dma_open, hw_vars, hist_vars>>

(***************************************************************************)
(* The hardware: DMA engine, KPU layer engine, KPU interrupt.              *)
(***************************************************************************)
RemoveAt(seq, i) == SubSeq(seq, 1, i - 1) \o SubSeq(seq, i + 1, Len(seq))

\* a transfer in flight ends and the DMA driver gives completion_event_; the
\* output transfer of a layer ends when the KPU has produced that layer
dma_complete ==
    /\ critical_nesting = 0
    /\ \E i \in 1..Len(dma_xfer) :
          LET x == dma_xfer[i]
          IN  /\ dma_xfer' = RemoveAt(dma_xfer, i)
              /\ IF x.kind = "output"
                 THEN /\ kpu_fifo # <<>>
                      /\ Head(kpu_fifo) = [layer |-> x.layer, main_mem_out |-> TRUE]
                      /\ \A j \in 1..(i - 1) : dma_xfer[j].kind # "output"
                      /\ kpu_fifo' = Tail(kpu_fifo)
                 ELSE UNCHANGED kpu_fifo
    /\ completion_event_' = 1
    /\ UNCHANGED <<task_vars, handles, load_thrown, side_vars, critical_nesting, free_mutex_, done_flag_, ctx_, dma_ch_,
                   dma_open, interrupt_mask, interrupt_status, irq_enable, hist_vars>>

\* the KPU finishes the layer at the head of its queue; a layer kpu_conv sent
\* with int_en = 1 latches calc_done
kpu_layer_done ==
    /\ kpu_fifo # <<>>
    /\ ~Head(kpu_fifo).main_mem_out
    /\ kpu_fifo' = Tail(kpu_fifo)
    /\ interrupt_status' = [interrupt_status EXCEPT !.calc_done_int = 1]
    /\ UNCHANGED <<task_vars, handles, load_thrown, side_vars, critical_nesting, free_mutex_, completion_event_, done_flag_,
                   ctx_, dma_ch_, dma_open, dma_xfer, interrupt_mask, irq_enable,
                   hist_vars>>

\* the KPU raises layer_cfg_almost_empty (its argument FIFO is at or below the
\* threshold); the latch of a masked line is cleared, before the line is
\* unmasked, by interrupt_clear = 7, so only the unmasked line is followed
kpu_fifo_almost_empty ==
    /\ interrupt_mask.layer_cfg_almost_empty_int = 0
    /\ interrupt_status.layer_cfg_almost_empty_int = 0
    /\ interrupt_status' = [interrupt_status EXCEPT !.layer_cfg_almost_empty_int = 1]
    /\ UNCHANGED <<task_vars, handles, load_thrown, side_vars, critical_nesting, free_mutex_, completion_event_, done_flag_,
                   ctx_, dma_ch_, dma_open, dma_xfer, interrupt_mask, irq_enable,
                   kpu_fifo, hist_vars>>

Pending ==
    \/ interrupt_mask.calc_done_int = 0 /\ interrupt_status.calc_done_int = 1
    \/ interrupt_mask.layer_cfg_almost_empty_int = 0
          /\ interrupt_status.layer_cfg_almost_empty_int = 1
    \/ interrupt_mask.layer_cfg_almost_full_int = 0
          /\ interrupt_status.layer_cfg_almost_full_int = 1

kpu_isr_handle_NoGive ==
    /\ irq_enable
    /\ critical_nesting = 0
    /\ Pending
    /\ interrupt_status' = Lines(0, 0, 0)
    /\ interrupt_mask' = Lines(1, 1, 1)
    /\ UNCHANGED <<task_vars, handles, load_thrown, side_vars, critical_nesting, free_mutex_, completion_event_, done_flag_,
                   ctx_, dma_ch_, dma_open, dma_xfer, irq_enable, kpu_fifo, hist_vars>>

\* kpu_isr_handle : clear the latches, mask the lines, xSemaphoreGiveFromISR
kpu_isr_handle ==
    /\ irq_enable
    /\ critical_nesting = 0
    /\ Pending
    /\ interrupt_status' = Lines(0, 0, 0)
    /\ interrupt_mask' = Lines(1, 1, 1)
    /\ completion_event_' = 1
    /\ UNCHANGED <<task_vars, handles, load_thrown, side_vars, critical_nesting, free_mutex_, done_flag_, ctx_, dma_ch_,
                   dma_open, dma_xfer, irq_enable, kpu_fifo, hist_vars>>

(***************************************************************************)
(* free_object_access: open and close of the device, which gate the clock  *)
(* of the accelerator.  A call is the atomic read-modify-write of          *)
(* used_count_ followed, when the value read asks for it, by the callback; *)
(* nothing orders the callback against the calls of other tasks.           *)
(***************************************************************************)
MaxOpens == 4        \* open() calls made in one behaviour

FirstOpen_Always(old) == TRUE

\* the test of open: used_count_.fetch_add(1) == 0
FirstOpen(old) == old = 0

\* the test of close: used_count_.fetch_sub(1) == 1
LastClose(old) == old = 1

\* another task is between the read-modify-write and the end of its callback
OtherInCall(t) == \E u \in Tasks \ {t} : apc[u] # "idle"

\* open : used_count_.fetch_add(1, relaxed), then the test of the old value
open(t) ==
    /\ apc[t] = "idle"
    /\ opens_made < MaxOpens
    /\ opens_made' = opens_made + 1
    /\ used_count_' = used_count_ + 1
    /\ overlapped' = (overlapped \/ OtherInCall(t))
    /\ IF FirstOpen(used_count_)
       THEN /\ apc' = [apc EXCEPT ![t] = "on_first_open"]
            /\ UNCHANGED held
       ELSE /\ held' = [held EXCEPT ![t] = held[t] + 1]
            /\ UNCHANGED apc
    /\ UNCHANGED <<clock_enabled, kpu_vars, kernel_vars>>

\* on_first_open : sysctl_clock_enable(clock_), then open returns
on_first_open(t) ==
    /\ apc[t] = "on_first_open"
    /\ clock_enabled' = TRUE
    /\ apc' = [apc EXCEPT ![t] = "idle"]
    /\ held' = [held EXCEPT ![t] = held[t] + 1]
    /\ UNCHANGED <<used_count_, opens_made, overlapped, kpu_vars, kernel_vars>>

\* close, by a task that has an open of its own to give back:
\* used_count_.fetch_sub(1, relaxed), then the test of the old value
close(t) ==
    /\ apc[t] = "idle"
    /\ held[t] > 0
    /\ held' = [held EXCEPT ![t] = held[t] - 1]
    /\ used_count_' = used_count_ - 1
    /\ overlapped' = (overlapped \/ OtherInCall(t))
    /\ IF LastClose(used_count_)
       THEN apc' = [apc EXCEPT ![t] = "on_last_close"]
       ELSE UNCHANGED apc
    /\ UNCHANGED <<clock_enabled, opens_made, kpu_vars, kernel_vars>>

\* on_last_close : sysctl_clock_disable(clock_), then close returns
on_last_close(t) ==
    /\ apc[t] = "on_last_close"
    /\ clock_enabled' = FALSE
    /\ apc' = [apc EXCEPT ![t] = "idle"]
    /\ UNCHANGED <<used_count_, held, opens_made, overlapped, kpu_vars, kernel_vars>>

AccessNext ==
    \/ \E t \in Tasks : open(t)
    \/ \E t \in Tasks : on_first_open(t)
    \/ \E t \in Tasks : close(t)
    \/ \E t \in Tasks : on_last_close(t)

\* the device is opened and closed by concurrent tasks
AccessSpec == Init /\ [][AccessNext]_vars

(***************************************************************************)
(* Tensor staging: kpu_upload_core.  The destination is the KPU memory at  *)
(* kpu_addr * 64; offsets below are byte offsets from it.                  *)
(***************************************************************************)
MaxHeight == 2       \* rows of the tensors uploaded
MaxChannels == 5     \* channels of the tensors uploaded

\* the widths uploaded: each of the three parameter sets, multiples of 8 and
\* not, and a width that takes two 64-byte rows
Widths == {5, 8, 16, 24, 40, 72}
\* the addresses of the source, modulo 8
SrcAddrs == {0, 4}
\* the source tensors: byte i of tensor seed
Seeds == {0, 101}
SrcByte(seed, i) == (seed + 37 * i) % 256

\* row_padding, row_group and row_length, chosen by the width
RowParams(width) ==
    IF width <= 16 THEN [row_padding |-> 16, row_group |-> 4, row_length |-> 1]
    ELSE IF width <= 32 THEN [row_padding |-> 32, row_group |-> 2, row_length |-> 1]
    ELSE [row_padding |-> 64, row_group |-> 1, row_length |-> (width + 63) \div 64]

\* channel_origin - dest
channel_origin(p, height, oc) ==
    (oc \div p.row_group) * p.row_length * height * 64 + ((oc % p.row_group) * p.row_padding)

\* the memory after the rows 1..Len(origins) were written in that order: row
\* r takes the next width bytes of the source to origins[r], origins[r] + 1, ...
\* (a later row overwrites an earlier one where they overlap)
StoreRows(origins, width, seed) ==
    LET rows == 1..Len(origins)
        hits(a) == {r \in rows : origins[r] <= a /\ a < origins[r] + width}
        last(a) == CHOOSE r \in hits(a) : \A q \in hits(a) : q <= r
    IN  [a \in UNION {origins[r]..(origins[r] + width - 1) : r \in rows} |->
            SrcByte(seed, (last(a) - 1) * width + (a - origins[last(a)]))]

\* the byte-wise loop: for each channel oc and row y, y_origin is the
\* uint8_t * channel_origin + y * row_length * 64 and takes width bytes
upload_bytes(width, height, channels, seed) ==
    LET p == RowParams(width)
        y_origin(r) == LET oc == (r - 1) \div height
                           y == (r - 1) % height
                       IN  channel_origin(p, height, oc) + y * p.row_length * 64
    IN  StoreRows([r \in 1..(height * channels) |-> y_origin(r)], width, seed)

\* the 64-bit loop: for each channel oc and row y, y_origin is
\* (uint64_t *)channel_origin + y * row_length * 64L, an offset counted in
\* 8-byte words, and takes width / 8 words
upload_u64(width, height, channels, seed) ==
    LET p == RowParams(width)
        y_origin(r) == LET oc == (r - 1) \div height
                           y == (r - 1) % height
                       IN  channel_origin(p, height, oc) + 8 * (y * p.row_length * 64)
    IN  StoreRows([r \in 1..(height * channels) |-> y_origin(r)], 8 * (width \div 8), seed)

\* kpu_upload_core : the bytes written, by offset from dest
kpu_upload_core(width, height, channels, src, seed) ==
    IF src % 8 = 0 /\ width % 8 = 0
    THEN upload_u64(width, height, channels, seed)
    ELSE upload_bytes(width, height, channels, seed)

UploadInputs ==
    [kernel : {"upload"}, width : Widths, height : 1..MaxHeight,
     channels : 1..MaxChannels, src : SrcAddrs, seed : Seeds]

UploadInit ==
    /\ DriverInit
    /\ kernel_in \in UploadInputs
    /\ kernel_out = NoMem
    /\ kernel_reads = {}
    /\ kernel_pc = "ready"

\* one call of kpu_upload_core on the tensor of kernel_in
UploadNext ==
    /\ kernel_pc = "ready"
    /\ kernel_out' = kpu_upload_core(kernel_in.width, kernel_in.height,
                                     kernel_in.channels, kernel_in.src, kernel_in.seed)
    /\ kernel_pc' = "done"
    /\ UNCHANGED <<kernel_in, kernel_reads, kpu_vars, access_vars>>

UploadSpec == UploadInit /\ [][UploadNext]_vars

(***************************************************************************)
(* Tensor staging: kpu_add_padding and kpu_remove_padding.                 *)
(***************************************************************************)
MaxPadChannels == 5  \* channels staged by kpu_add_padding

\* the values of the source bytes, and of the bytes the region held before
PadBytes == {7, 200}
FillBytes == {0, 200}

\* the byte at offset a of a region that held fill everywhere before mem was
\* written to it
ReadByte(mem, a, fill) == IF a \in DOMAIN mem THEN mem[a] ELSE fill

\* kpu_add_padding : one byte per channel, to row 0 of the layout of
\* row_padding 16, row_group 4, row_length 1 and height 4
kpu_add_padding(channels, src) ==
    LET p == [row_padding |-> 16, row_group |-> 4, row_length |-> 1]
        height == 4
    IN  [a \in {channel_origin(p, height, oc) : oc \in 0..(channels - 1)} |->
            src[(CHOOSE oc \in 0..(channels - 1) : channel_origin(p, height, oc) = a) + 1]]

\* kpu_remove_padding : *dest++ = src[oc * 16] for each channel
kpu_remove_padding(channels, region, fill) ==
    [oc \in 0..(channels - 1) |-> ReadByte(region, oc * 16, fill)]

PaddingInputs ==
    UNION {[kernel : {"padding"}, channels : {c}, src : [1..c -> PadBytes],
            fill : FillBytes] : c \in 1..MaxPadChannels}

PaddingInit ==
    /\ DriverInit
    /\ kernel_in \in PaddingInputs
    /\ kernel_out = NoMem
    /\ kernel_reads = {}
    /\ kernel_pc = "ready"

\* a KL_K210_ADD_PADDING layer stages the source bytes
add_padding_layer ==
    /\ kernel_pc = "ready"
    /\ kernel_out' = kpu_add_padding(kernel_in.channels, kernel_in.src)
    /\ kernel_pc' = "added"
    /\ UNCHANGED <<kernel_in, kernel_reads, kpu_vars, access_vars>>

\* a KL_K210_REMOVE_PADDING layer reads the region the staging wrote
remove_padding_layer ==
    /\ kernel_pc = "added"
    /\ kernel_out' = kpu_remove_padding(kernel_in.channels, kernel_out, kernel_in.fill)
    /\ kernel_pc' = "done"
    /\ UNCHANGED <<kernel_in, kernel_reads, kpu_vars, access_vars>>

PaddingNext == add_padding_layer \/ remove_padding_layer

PaddingSpec == PaddingInit /\ [][PaddingNext]_vars

(***************************************************************************)
(* CPU kernels: kpu_quantized_add.  The values of the model stay far from  *)
(* the ends of int64_t, so the arithmetic is that of the integers; >> of a *)
(* negative int64_t is the arithmetic shift, which rounds down.            *)
(***************************************************************************)
MaxCount == 2        \* elements of the tensors added

\* the bytes of the two inputs
BytesA == {0, 30, 250}
BytesB == {5, 40}
\* the offsets, multipliers and shifts of the layer argument
QuantOffsets == {-3, 0}
QuantMuls == {1, 3}
QuantShifts == {0, 1}
QuantOutShifts == {0, 2}

\* x >> s
Shr(x, s) == x \div (2 ^ s)

Saturate_NoUpper(value) == IF value < 0 THEN 0 ELSE value % 256

\* if (value < 0) value = 0; if (value > 0xFF) value = 0xFF; (uint8_t)value
Saturate(value) == IF value < 0 THEN 0 ELSE IF value > 255 THEN 255 ELSE value

\* the byte kpu_quantized_add stores for the input bytes xa and xb
quantized_add_byte(xa, xb, q) ==
    IF q.sh_a = q.sh_b
    THEN LET a == (xa + q.off_a) * q.mul_a
             b == (xb + q.off_b) * q.mul_b
             value == Shr(Shr(a + b, q.sh_a) * q.mul_o, q.sh_o) + q.off_o
         IN  Saturate(value)
    ELSE LET a == Shr((xa + q.off_a) * q.mul_a, q.sh_a)
             b == Shr((xb + q.off_b) * q.mul_b, q.sh_b)
             value == Shr((a + b) * q.mul_o, q.sh_o) + q.off_o
         IN  Saturate(value)

\* kpu_quantized_add : the count bytes written to dest
kpu_quantized_add(q) ==
    [i \in 0..(q.count - 1) |-> quantized_add_byte(q.src_a[i + 1], q.src_b[i + 1], q)]

QAddInputs ==
    UNION {[kernel : {"quantized_add"}, count : {n},
            src_a : [1..n -> BytesA], src_b : [1..n -> BytesB],
            off_a : QuantOffsets, mul_a : QuantMuls, sh_a : QuantShifts,
            off_b : QuantOffsets, mul_b : QuantMuls, sh_b : QuantShifts,
            off_o : QuantOffsets, mul_o : QuantMuls, sh_o : QuantOutShifts]
           : n \in 1..MaxCount}

QAddInit ==
    /\ DriverInit
    /\ kernel_in \in QAddInputs
    /\ kernel_out = NoMem
    /\ kernel_reads = {}
    /\ kernel_pc = "ready"

\* a KL_QUANTIZED_ADD layer
QAddNext ==
    /\ kernel_pc = "ready"
    /\ kernel_out' = kpu_quantized_add(kernel_in)
    /\ kernel_pc' = "done"
    /\ UNCHANGED <<kernel_in, kernel_reads, kpu_vars, access_vars>>

QAddSpec == QAddInit /\ [][QAddNext]_vars

(***************************************************************************)
(* kpu_quantized_max_pool2d.  The shapes, the kernel, the strides and the  *)
(* paddings are fields of the layer body and are taken as they come.       *)
(***************************************************************************)
MaxOutWidth == 3     \* width of the pooled output
MaxOutHeight == 2    \* height of the pooled output
MaxPoolChannels == 2 \* channels pooled

\* the widths of the input
PoolWidths == {2, 3}
\* the heights of the input
PoolHeights == {2}
\* kernel sizes, strides and paddings, along either axis
PoolKernels == {1, 2}
PoolStrides == {1, 2}
PoolPaddings == {0, 1}

\* (a) < (b) for a of type uint32_t and b of type int32_t or uint32_t, given
\* as the int32_t of the same bits: the comparison is made on uint32_t, where
\* a negative b is 2^32 + b, above every a below 2^31
UnsignedLess(a, b) == IF b < 0 THEN TRUE ELSE a < b

\* in_x_origin = (int32_t)(out_x * stride_width) - padding_width
in_origin(out_i, stride, padding) == out_i * stride - padding

\* kernel_x_start = max(0, -in_x_origin)
kernel_start(origin) == IF 0 > 0 - origin THEN 0 ELSE 0 - origin

\* kernel_x_end = min(kernel_width, in_shape.width - in_x_origin)
kernel_end(kernel_size, in_size, origin) ==
    IF UnsignedLess(kernel_size, in_size - origin) THEN kernel_size ELSE in_size - origin

\* the greatest member of values, 0 (the initial value) if there is none
MaxOf(values) ==
    LET all == values \cup {0} IN CHOOSE m \in all : \A v \in all : v <= m

\* the elements <<oc, in_y, in_x>> the two kernel loops read for the output at
\* (oc, out_y, out_x)
PoolWindow(a, oc, out_y, out_x) ==
    LET in_x_origin == in_origin(out_x, a.stride_width, a.padding_width)
        in_y_origin == in_origin(out_y, a.stride_height, a.padding_height)
        xs == kernel_start(in_x_origin)..(kernel_end(a.kernel_width, a.in_width, in_x_origin) - 1)
        ys == kernel_start(in_y_origin)..(kernel_end(a.kernel_height, a.in_height, in_y_origin) - 1)
    IN  {<<oc, in_y_origin + kernel_y, in_x_origin + kernel_x>> :
            kernel_y \in ys, kernel_x \in xs}

\* channel_src[in_y * in_shape.width + in_x] : a byte of the input tensor, or
\* whatever lies behind it in memory
PoolRead(a, e) ==
    LET i == a.in_width * a.in_height * e[1] + e[2] * a.in_width + e[3]
    IN  IF i < a.in_width * a.in_height * a.channels THEN SrcByte(a.seed, i) ELSE a.fill

\* kpu_quantized_max_pool2d : the bytes written to dest, in the order of the
\* three loops, and the elements read
kpu_quantized_max_pool2d(a) ==
    LET cell(n) == <<n \div (a.out_height * a.out_width),
                     (n \div a.out_width) % a.out_height,
                     n % a.out_width>>
        window(n) == PoolWindow(a, cell(n)[1], cell(n)[2], cell(n)[3])
        count == a.channels * a.out_height * a.out_width
    IN  [dest |-> [n \in 0..(count - 1) |-> MaxOf({PoolRead(a, e) : e \in window(n)})],
         reads |-> UNION {window(n) : n \in 0..(count - 1)}]

PoolInputs ==
    [kernel : {"max_pool"}, in_width : PoolWidths, in_height : PoolHeights,
     out_width : 1..MaxOutWidth, out_height : 1..MaxOutHeight,
     channels : 1..MaxPoolChannels,
     kernel_width : PoolKernels, kernel_height : PoolKernels,
     stride_width : PoolStrides, stride_height : PoolStrides,
     padding_width : PoolPaddings, padding_height : PoolPaddings,
     seed : Seeds, fill : FillBytes]

PoolInit ==
    /\ DriverInit
    /\ kernel_in \in PoolInputs
    /\ kernel_out = NoMem
    /\ kernel_reads = {}
    /\ kernel_pc = "ready"

\* a KL_QUANTIZED_MAX_POOL2D layer on the tensor of kernel_in
PoolNext ==
    /\ kernel_pc = "ready"
    /\ kernel_out' = kpu_quantized_max_pool2d(kernel_in).dest
    /\ kernel_reads' = kpu_quantized_max_pool2d(kernel_in).reads
    /\ kernel_pc' = "done"
    /\ UNCHANGED <<kernel_in, kpu_vars, access_vars>>

PoolSpec == PoolInit /\ [][PoolNext]_vars

(***************************************************************************)
(* kpu_conv, the output transfer of a main-mem-out layer: the DMA engine   *)
(* moves the given number of 64-bit beats from the output FIFO of the KPU  *)
(* to dest.  The content of the beats is not modelled.                     *)
(***************************************************************************)
MaxTotalByte == 63   \* greatest dma_total_byte of the layers

output_dma_count_Ceil(dma_total_byte) == (dma_total_byte + 15) \div 8

\* the count argument of dma_transmit_async:
\* (layer.dma_parameter.data.dma_total_byte + 8) / 8, an unsigned division
output_dma_count(dma_total_byte) == (dma_total_byte + 8) \div 8

ConvInputs ==
    [kernel : {"conv"}, main_mem_out : BOOLEAN, dma_total_byte : 0..MaxTotalByte]

ConvInit ==
    /\ DriverInit
    /\ kernel_in \in ConvInputs
    /\ kernel_out = NoMem
    /\ kernel_reads = {}
    /\ kernel_pc = "ready"

\* kpu_conv on the layer of kernel_in: with KLF_MAIN_MEM_OUT the transfer of
\* count beats of sizeof(uint64_t) bytes to dest, no transfer otherwise
conv_output ==
    /\ kernel_pc = "ready"
    /\ kernel_out' = IF kernel_in.main_mem_out
                     THEN [a \in 0..(8 * output_dma_count(kernel_in.dma_total_byte) - 1) |-> 0]
                     ELSE NoMem
    /\ kernel_pc' = "done"
    /\ UNCHANGED <<kernel_in, kernel_reads, kpu_vars, access_vars>>

ConvSpec == ConvInit /\ [][conv_output]_vars

(***************************************************************************)
(* kpu_quantize.  A float is held as an integer count of units of 2^-18    *)
(* (values) or of 2^-16 (the reciprocal of the scale); sources and biases  *)
(* are given in quarters.  An operation yields the float nearest to its    *)
(* exact result, ties to even.                                             *)
(***************************************************************************)
MaxQuantizeCount == 3    \* elements of the tensor quantized

\* the source values and the biases, in quarters
QuantizeSrcs == {-4, 0, 1, 2, 3, 4, 8}
QuantizeBiases == {0, 1}
\* the scales: q.scale is the float nearest to 1 / d
QuantizeScales == {1, 255, 256}

\* float scale = 1.f / q.scale, in units of 2^-16, for q.scale the float
\* nearest to 1 / d: 1 / 255 is 0x3B808081, whose reciprocal rounds to
\* 255 - 2^-16; the powers of two are exact
Reciprocal(d) == IF d = 255 THEN 255 * 65536 - 1 ELSE d * 65536

\* the number of bits of n > 0
BitLength(n) == CHOOSE k \in 1..31 : 2 ^ (k - 1) <= n /\ (k = 31 \/ n < 2 ^ k)

\* the float nearest to n >= 0 units: 24 significant bits, ties to even
NearestFloat(n) ==
    IF n < 2 ^ 24 THEN n
    ELSE LET ulp == 2 ^ (BitLength(n) - 24)
             q == n \div ulp
             r == n % ulp
         IN  IF 2 * r > ulp \/ (2 * r = ulp /\ q % 2 = 1) THEN (q + 1) * ulp ELSE q * ulp

\* (*src - q.bias) * scale, in units of 2^-18; the difference of two values
\* in quarters is exact
ScaledValue(x, bias, d) ==
    LET exact == (x - bias) * Reciprocal(d)
    IN  IF exact >= 0 THEN NearestFloat(exact) ELSE 0 - NearestFloat(0 - exact)

\* int value = <float> : the conversion drops the fraction
ToInt(v) == IF v >= 0 THEN v \div (2 ^ 18) ELSE 0 - ((0 - v) \div (2 ^ 18))

\* if (value < 0) value = 0; if (value > 0xFF) value = 0xFF;
ClampByte(value) == IF value < 0 THEN 0 ELSE IF value > 255 THEN 255 ELSE value

\* kpu_quantize : the bytes written to dest
kpu_quantize(a) ==
    [i \in 0..(Len(a.src) - 1) |-> ClampByte(ToInt(ScaledValue(a.src[i + 1], a.bias, a.scale)))]

QuantizeInputs ==
    UNION {[kernel : {"quantize"}, src : [1..n -> QuantizeSrcs], bias : QuantizeBiases,
            scale : QuantizeScales] : n \in 1..MaxQuantizeCount}

QuantizeInit ==
    /\ DriverInit
    /\ kernel_in \in QuantizeInputs
    /\ kernel_out = NoMem
    /\ kernel_reads = {}
    /\ kernel_pc = "ready"

\* a KL_QUANTIZE layer on the tensor of kernel_in
QuantizeNext ==
    /\ kernel_pc = "ready"
    /\ kernel_out' = kpu_quantize(kernel_in)
    /\ kernel_pc' = "done"
    /\ UNCHANGED <<kernel_in, kernel_reads, kpu_vars, access_vars>>

QuantizeSpec == QuantizeInit /\ [][QuantizeNext]_vars

(***************************************************************************)
(* Specifications.                                                         *)
(***************************************************************************)
TaskStep(t) ==
    \/ semaphore_lock(t)
    \/ run_prime(t)
    \/ run_input(t)
    \/ ai_step_not_isr(t)
    \/ vPortExitCritical(t)
    \/ run_take(t)
    \/ run_step(t)
    \/ run_return(t)
    \/ get_output(t)
    \/ semaphore_unlock(t)

Next ==
    \/ \E b \in Buffers : model_load_from_buffer(b)
    \/ \E t \in Tasks : Call(t)
    \/ \E t \in Tasks : semaphore_lock(t)
    \/ \E t \in Tasks : run_prime(t)
    \/ \E t \in Tasks : run_input(t)
    \/ \E t \in Tasks : ai_step_not_isr(t)
    \/ \E t \in Tasks : vPortExitCritical(t)
    \/ \E t \in Tasks : run_take(t)
    \/ \E t \in Tasks : run_step(t)
    \/ \E t \in Tasks : run_return(t)
    \/ \E t \in Tasks : get_output(t)
    \/ \E t \in Tasks : semaphore_unlock(t)
    \/ \E t \in Tasks : Return(t)
    \/ dma_complete
    \/ kpu_layer_done
    \/ kpu_fifo_almost_empty
    \/ kpu_isr_handle

Spec == Init /\ [][Next]_vars

\* Every task that can take a step takes one, every transfer in flight ends,
\* every programmed layer finishes and a pending interrupt is served.
FairSpec ==
    /\ Spec
    /\ \A t \in Tasks : WF_vars(TaskStep(t))
    /\ WF_vars(dma_complete)
    /\ WF_vars(kpu_layer_done)
    /\ WF_vars(kpu_isr_handle)

(***************************************************************************)
(* Properties.                                                             *)
(***************************************************************************)
RunBody == {"run_prime", "run_input", "run_crit", "run_crit_exit", "run_loop",
            "run_step"}

\* the artifact behind the handle of the call task t is in
ModelOfCall(t) == ModelOf(handles[op[t].handle].model_buffer_)

\* task t is in a run, past the reset of the cursor and of the history
InRun(t) == op[t].name = "run" /\ pc[t] \in (RunBody \ {"run_prime"}) \cup {"unlock"}

\* C1: at most one task is ever inside the body of run / get_output, so a
\* second call does not touch ctx_, the KPU registers or the scratch buffer
\* before the first has returned.
C1_Serialized == Cardinality({t \in Tasks : pc[t] \in Body}) <= 1

\* a run is waiting on its completion semaphore while another task's call is
\* blocked at COMMON_ENTRY
C1_Witness ==
    \E t \in Tasks, u \in Tasks :
        /\ t # u
        /\ op[t].name = "run" /\ pc[t] = "run_loop"
        /\ pc[u] = "lock"

\* C3: the layers dispatched in a run are 0, 1, 2, ... in that order, never
\* past the last one; kpu_done runs at most once and only when every layer was
\* dispatched; a run that returns 0 dispatched all of them and ran kpu_done
\* exactly once.
C3_DispatchOrder ==
    \A t \in Tasks :
        InRun(t) =>
            /\ \A i \in 1..Len(dispatched) : dispatched[i] = i - 1
            /\ Len(dispatched) <= ModelOfCall(t).layers_length
            /\ done_calls <= 1
            /\ done_calls = 1 => Len(dispatched) = ModelOfCall(t).layers_length
            /\ (pc[t] = "unlock" /\ ret[t] = 0) =>
                  /\ done_calls = 1
                  /\ Len(dispatched) = ModelOfCall(t).layers_length

\* a run of a model of at least three layers is about to return 0
C3_Witness ==
    \E t \in Tasks :
        /\ op[t].name = "run" /\ pc[t] = "unlock" /\ ret[t] = 0
        /\ ModelOfCall(t).layers_length >= 3

\* C4: the mutex is held only by a task that is inside run or get_output, so
\* it is free whenever no call is in progress, whatever the call returned.
C4_MutexReleased ==
    /\ free_mutex_ # NoTask => pc[free_mutex_] \in Body
    /\ (\A t \in Tasks : pc[t] \in {"idle", "returned"}) => free_mutex_ = NoTask

\* a run has returned -1 and a get_output has returned -1, no call is in
\* progress and the mutex is free
C4_Witness ==
    \E t \in Tasks, u \in Tasks :
        /\ pc[t] = "returned" /\ op[t].name = "run" /\ ret[t] = -1
        /\ pc[u] = "returned" /\ op[u].name = "get_output" /\ ret[u] = -1
        /\ free_mutex_ = NoTask

\* C5: a run of a model whose first layer header is not KL_K210_CONV goes
\* from the header test straight to return -1: no layer is dispatched, no
\* input is staged, no DMA transfer is issued.
C5_FirstLayerNotConv ==
    \A t \in Tasks :
        (op[t].name = "run" /\ ModelOfCall(t).layers[1].type # KL_K210_CONV) =>
            /\ pc[t] \in {"lock", "run_prime", "unlock", "returned"}
            /\ pc[t] \in {"unlock", "returned"} => ret[t] = -1
            /\ pc[t] = "unlock" =>
                  dispatched = <<>> /\ ~staged /\ dma_issued = 0 /\ done_calls = 0

\* such a run is about to return
C5_Witness ==
    \E t \in Tasks :
        /\ op[t].name = "run" /\ pc[t] = "unlock"
        /\ ModelOfCall(t).layers[1].type # KL_K210_CONV

\* C6: model_load_from_buffer throws, leaving the handle table as it was, for
\* every buffer whose header has version # 3 or arch # 0, and otherwise adds
\* one container, built on that buffer, and yields its handle.
C6_HeaderGate ==
    [][\A b \in Buffers :
          model_load_from_buffer(b) =>
              /\ load_thrown' <=> (Buffer(b).version # 3 \/ Buffer(b).arch # 0)
              /\ load_thrown' => handles' = handles
              /\ ~load_thrown' =>
                    /\ Len(handles') = Len(handles) + 1
                    /\ SubSeq(handles', 1, Len(handles)) = handles
                    /\ handles'[Len(handles')].model_buffer_ = Ptr(<<"model", b>>, 0)]_vars

\* a load has succeeded and a later load has thrown, adding no handle
C6_Witness == load_thrown /\ Len(handles) = 1

\* the call of task t is a get_output whose result has been computed
GotOutput(t) == op[t].name = "get_output" /\ pc[t] \in {"unlock", "returned"}

\* the scratch buffer of the container behind handle h
ScratchOf(h) == Ptr(<<"scratch", h>>, 0)

\* C7: get_output returns -1, leaving data and size unwritten, exactly when
\* index >= output_count; otherwise it returns 0 with data = scratch base +
\* descriptor[index].offset and size = descriptor[index].size.
C7_GetOutput ==
    \A t \in Tasks :
        GotOutput(t) =>
            LET m == ModelOfCall(t)
                i == op[t].index
            IN  /\ ret[t] \in {0, -1}
                /\ ret[t] = -1 <=> i >= m.output_count
                /\ ret[t] = -1 => out[t] = Unset
                /\ ret[t] = 0 =>
                      /\ out[t].data = PtrAdd(ScratchOf(op[t].handle), m.outputs[i + 1].address)
                      /\ out[t].size = m.outputs[i + 1].size

\* one get_output has returned -1 and another has returned 0
C7_Witness ==
    \E t \in Tasks, u \in Tasks :
        /\ GotOutput(t) /\ ret[t] = -1
        /\ GotOutput(u) /\ ret[u] = 0

\* the region get_output gave task t lies inside the scratch buffer of the
\* container and has the size of the descriptor
RegionInScratch(t) ==
    LET m == ModelOfCall(t)
    IN  /\ out[t].data.region = ScratchOf(op[t].handle).region
        /\ 0 <= out[t].data.off
        /\ out[t].data.off + out[t].size <= m.main_mem_usage
        /\ out[t].size = m.outputs[op[t].index + 1].size

\* C8 as stated: for every model that passes the header check and every
\* index < output_count, the region returned lies inside the scratch buffer.
C8_AnyModel ==
    \A t \in Tasks :
        (GotOutput(t) /\ op[t].index < ModelOfCall(t).output_count) => RegionInScratch(t)

\* C8, amended: for every model that passes the header check and every index
\* < output_count whose descriptor satisfies offset + size <= main_mem_usage,
\* the region returned lies inside the scratch buffer and has the
\* descriptor's size.
C8_DescriptorInRange ==
    \A t \in Tasks :
        LET m == ModelOfCall(t)
            i == op[t].index
        IN  (/\ GotOutput(t)
             /\ i < m.output_count
             /\ m.outputs[i + 1].address + m.outputs[i + 1].size <= m.main_mem_usage)
            => RegionInScratch(t)

\* get_output has returned the second output of a model, a region that ends
\* where the scratch buffer ends
C8_Witness ==
    \E t \in Tasks :
        /\ GotOutput(t) /\ ret[t] = 0 /\ op[t].index = 1
        /\ out[t].data.off + out[t].size = ModelOfCall(t).main_mem_usage

\* C9 as stated: a run that found no DMA channel free returns a negative
\* status instead of going on with the inference.
C9_NoChannel ==
    \A t \in Tasks :
        (InRun(t) /\ dma_ch_ = NullHandle) => (pc[t] = "unlock" /\ ret[t] = -1)

\* C10 as stated: when no run is in progress the driver holds no DMA channel.
C10_ChannelReleased ==
    (\A t \in Tasks : ~(op[t].name = "run" /\ pc[t] \in RunBody \cup {"unlock"}))
        => dma_open = {}

\* C2: under FairSpec, every run of a model whose first layer is
\* convolutional eventually returns 0.
C2_RunReturns ==
    \A t \in Tasks :
        (pc[t] = "lock" /\ op[t].name = "run"
            /\ ModelOfCall(t).layers[1].type = KL_K210_CONV)
        ~> (pc[t] = "returned" /\ op[t].name = "run" /\ ret[t] = 0)

\* a run of a model that mixes convolutional and auxiliary layers has
\* returned 0
C2_Witness ==
    \E t \in Tasks :
        /\ pc[t] = "returned" /\ op[t].name = "run" /\ ret[t] = 0
        /\ ModelOfCall(t).layers_length >= 3

(***************************************************************************)
(* Properties of open and close.                                           *)
(***************************************************************************)
\* no open or close call is in progress
Quiescent == \A t \in Tasks : apc[t] = "idle"

\* C11: while open and close calls have never overlapped, open invokes
\* on_first_open exactly when it takes the use count from 0 to 1, close invokes
\* on_last_close exactly when it takes the count from 1 to 0, and between
\* calls the clock is enabled exactly when the use count is > 0.
C11_RefCountedClock ==
    /\ [](~overlapped /\ Quiescent => (clock_enabled <=> used_count_ > 0))
    /\ [][\A t \in Tasks :
            /\ (open(t) /\ ~overlapped') =>
                   (apc'[t] = "on_first_open" <=> (used_count_ = 0 /\ used_count_' = 1))
            /\ (close(t) /\ ~overlapped') =>
                   (apc'[t] = "on_last_close" <=> (used_count_ = 1 /\ used_count_' = 0))
            /\ (on_first_open(t) /\ ~overlapped) => (used_count_ = 1 /\ clock_enabled')
            /\ (on_last_close(t) /\ ~overlapped) => (used_count_ = 0 /\ ~clock_enabled')]_vars

\* after calls that never overlapped, the device has been opened twice,
\* closed to 0 and opened again: the clock is on for the second time
C11_Witness ==
    /\ ~overlapped /\ Quiescent
    /\ opens_made = 3 /\ used_count_ = 1 /\ clock_enabled

\* C19 as stated: whenever no open or close call is in progress, the clock is
\* enabled if and only if the use count is > 0.
C19_ClockTracksCount == Quiescent => (clock_enabled <=> used_count_ > 0)

(***************************************************************************)
(* Properties of the staging kernels.                                      *)
(***************************************************************************)
\* C12 as stated: for a width that is a multiple of 8 and an 8-byte-aligned
\* source, kpu_upload_core writes the same destination addresses with the same
\* byte values as the byte-wise path, whatever the height and the channels.
C12_FastEqualsByte ==
    (kernel_pc = "done" /\ kernel_in.src % 8 = 0 /\ kernel_in.width % 8 = 0) =>
        kernel_out = upload_bytes(kernel_in.width, kernel_in.height,
                                  kernel_in.channels, kernel_in.seed)

\* C13 as stated: for any channel count and any source bytes, add_padding
\* followed by remove_padding of the region it wrote yields the source bytes
\* in channel order.
C13_RoundTrip ==
    kernel_pc = "done" =>
        \A oc \in 0..(kernel_in.channels - 1) : kernel_out[oc] = kernel_in.src[oc + 1]

(***************************************************************************)
(* Properties of the CPU kernels.                                          *)
(***************************************************************************)
\* the value v of the quantized-add formula for the input bytes a and b
QAddFormula(a, b, q) ==
    LET A == (a + q.off_a) * q.mul_a
        B == (b + q.off_b) * q.mul_b
    IN  IF q.sh_a = q.sh_b
        THEN (((A + B) \div (2 ^ q.sh_a)) * q.mul_o) \div (2 ^ q.sh_o) + q.off_o
        ELSE (((A \div (2 ^ q.sh_a)) + (B \div (2 ^ q.sh_b))) * q.mul_o) \div (2 ^ q.sh_o)
                + q.off_o

\* C14: every byte quantized-add stores is clamp(v, 0, 255) for the v of the
\* formula of the branch taken; so it lies in [0, 255], and is 255 when v
\* is above 255.
C14_QuantizedAdd ==
    kernel_pc = "done" =>
        \A i \in 0..(kernel_in.count - 1) :
            LET v == QAddFormula(kernel_in.src_a[i + 1], kernel_in.src_b[i + 1], kernel_in)
            IN  /\ kernel_out[i] \in 0..255
                /\ v < 0 => kernel_out[i] = 0
                /\ v \in 0..255 => kernel_out[i] = v
                /\ v > 255 => kernel_out[i] = 255

\* with different shifts and a negative offset, one byte has saturated to 255
\* from a larger value and another lies strictly inside the range
C14_Witness ==
    /\ kernel_pc = "done"
    /\ kernel_in.sh_a # kernel_in.sh_b /\ kernel_in.off_a < 0
    /\ kernel_in.count = 2
    /\ QAddFormula(kernel_in.src_a[1], kernel_in.src_b[1], kernel_in) > 255
    /\ kernel_out[0] = 255
    /\ kernel_out[1] \in 1..254

(***************************************************************************)
(* Properties of the hand-off between run, the KPU interrupt and the DMA.  *)
(***************************************************************************)
\* the index of the layer dispatched last in this run
LastDispatched == Len(dispatched) - 1

\* the input transfer of kpu_input_dma is in flight
InputInFlight == \E i \in 1..Len(dma_xfer) : dma_xfer[i].kind = "input"

\* C15 as stated: in a run, no layer is dispatched while the input transfer
\* is in flight; a layer the KPU has not finished, and an output transfer in
\* flight, belong to the layer dispatched last, and kpu_done has not run; a
\* run that returns 0 leaves no layer unfinished and no transfer in flight.
C15_CompletionBeforeDispatch ==
    \A t \in Tasks :
        InRun(t) =>
            /\ dispatched # <<>> => ~InputInFlight
            /\ \A i \in 1..Len(kpu_fifo) :
                  kpu_fifo[i].layer = LastDispatched /\ done_calls = 0
            /\ \A i \in 1..Len(dma_xfer) :
                  dma_xfer[i].kind = "output" =>
                      (dma_xfer[i].layer = LastDispatched /\ done_calls = 0)
            /\ (pc[t] = "unlock" /\ ret[t] = 0) => (kpu_fifo = <<>> /\ dma_xfer = <<>>)

\* C16 as stated: in a run, no second give is made between two takes: the
\* KPU interrupt routine and the DMA completion give the semaphore only when
\* the token of the previous give has been taken.
C16_OneGivePerWait ==
    [][((kpu_isr_handle \/ dma_complete)
            /\ \E t \in Tasks : op[t].name = "run" /\ pc[t] \in RunBody)
          => completion_event_ = 0]_vars

\* run of task t waits for the convolutional layer it programmed last
WaitingForConv(t) ==
    /\ InRun(t) /\ pc[t] = "run_loop"
    /\ done_flag_ = 0 /\ completion_event_ = 0
    /\ dispatched # <<>>
    /\ ModelOfCall(t).layers[Len(dispatched)].type = KL_K210_CONV
    /\ kpu_fifo # <<>>

\* the interrupt lines that are not masked
Unmasked == {l \in DOMAIN interrupt_mask : interrupt_mask[l] = 0}

\* C17 as stated: while run waits for a convolutional layer, exactly one
\* completion source is armed: for a main-mem-out layer its output transfer
\* is in flight and every KPU interrupt is masked, for another layer exactly
\* one KPU interrupt is unmasked and no transfer is in flight.
C17_OneSourceArmed ==
    \A t \in Tasks :
        WaitingForConv(t) =>
            IF ModelOfCall(t).layers[Len(dispatched)].main_mem_out
            THEN /\ \E i \in 1..Len(dma_xfer) :
                       dma_xfer[i].kind = "output" /\ dma_xfer[i].layer = LastDispatched
                 /\ Unmasked = {}
            ELSE /\ Cardinality(Unmasked) = 1
                 /\ dma_xfer = <<>>

\* C18 as stated: the completion semaphore holds no token when a run has
\* entered (it holds the mutex and has not started priming).
C18_NoStaleToken ==
    \A t \in Tasks :
        (op[t].name = "run" /\ pc[t] = "run_prime") => completion_event_ = 0

\* C20: a run whose first layer has (i_row_wid + 1) % 64 # 0 stages the input
\* on the CPU and is inside the critical section exactly from before to after
\* the dispatch of layer 0, which is the only step made there; it has left
\* the critical section when it waits, steps or returns.  A run whose first
\* layer has (i_row_wid + 1) % 64 = 0 never enters the critical section,
\* stages nothing on the CPU and issues the input transfer.
C20_CriticalStep ==
    /\ critical_nesting > 0 <=> \E t \in Tasks : pc[t] = "run_crit_exit"
    /\ \A t \in Tasks :
          (InRun(t) /\ ~(pc[t] = "unlock" /\ ret[t] = -1)) =>
              IF (ModelOfCall(t).layers[1].i_row_wid + 1) % 64 # 0
              THEN /\ pc[t] # "run_input" => staged
                   /\ dma_issued = 0 \/ Len(dispatched) >= 1
                   /\ pc[t] = "run_crit" => dispatched = <<>>
                   /\ pc[t] = "run_crit_exit" => (dispatched = <<0>> /\ critical_nesting = 1)
                   /\ pc[t] \in {"run_loop", "run_step", "unlock"} =>
                         (Len(dispatched) >= 1 /\ critical_nesting = 0)
              ELSE /\ pc[t] \notin {"run_crit", "run_crit_exit"}
                   /\ ~staged
                   /\ critical_nesting = 0
                   /\ pc[t] # "run_input" => dma_issued >= 1

\* a run is inside the critical section, layer 0 dispatched, its output
\* transfer issued there
C20_Witness ==
    \E t \in Tasks :
        /\ pc[t] = "run_crit_exit" /\ critical_nesting = 1
        /\ dispatched = <<0>> /\ staged /\ dma_issued = 1

(***************************************************************************)
(* The suspension points of run.                                           *)
(***************************************************************************)
\* number of convolutional layers of artifact m
NumConvLayers(m) ==
    Cardinality({i \in 1..m.layers_length : m.layers[i].type = KL_K210_CONV})

\* the run task t is in stages its input by DMA (kpu_input_dma)
InputByDma(t) == (ModelOfCall(t).layers[1].i_row_wid + 1) % 64 = 0

\* task t is about to return 0 from run
RunReturnsZero(t) == op[t].name = "run" /\ pc[t] = "unlock" /\ ret[t] = 0

\* C21 as stated: in every run that returns 0 the number of semaphore takes
\* is 1 + the number of convolutional layers of the model.
C21_TakesOnePlusConv ==
    \A t \in Tasks :
        RunReturnsZero(t) => takes = 1 + NumConvLayers(ModelOfCall(t))

\* C21, amended: in every run that returns 0 the number of semaphore takes is
\* the number of convolutional layers, plus one when the input was staged by
\* DMA (on the CPU path layer 0 is dispatched without a wait, so the first
\* take is the one that follows layer 0); every take follows the issue of the
\* input DMA or the dispatch of a convolutional layer, never that of an
\* auxiliary layer.
C21_TakesPerRun ==
    /\ [](\A t \in Tasks :
            RunReturnsZero(t) =>
                takes = NumConvLayers(ModelOfCall(t)) + (IF InputByDma(t) THEN 1 ELSE 0))
    /\ [][\A t \in Tasks :
            run_take(t) =>
                IF dispatched = <<>>
                THEN InputByDma(t) /\ dma_issued = 1
                ELSE ModelOfCall(t).layers[dispatched[Len(dispatched)] + 1].type
                        = KL_K210_CONV]_vars

\* a run on the CPU input path of a model with two convolutional layers and an
\* auxiliary layer between them is about to return 0, after two takes
C21_Witness ==
    \E t \in Tasks :
        /\ RunReturnsZero(t)
        /\ ~InputByDma(t)
        /\ ModelOfCall(t).layers_length = 3
        /\ NumConvLayers(ModelOfCall(t)) = 2
        /\ takes = 2

\* C22: when run returns 0 the three KPU interrupts are masked and done_flag_
\* is 0, and the run, first or not on the device, has dispatched every layer of
\* its model.
C22_IdleAfterRun ==
    \A t \in Tasks :
        RunReturnsZero(t) =>
            /\ interrupt_mask = Lines(1, 1, 1)
            /\ done_flag_ = 0
            /\ Len(dispatched) = ModelOfCall(t).layers_length

\* a run is about to return 0 on the model on which the run of the other task
\* has just returned 0
C22_Witness ==
    \E t \in Tasks, u \in Tasks :
        /\ t # u
        /\ RunReturnsZero(t)
        /\ op[u].name = "run" /\ pc[u] = "returned" /\ ret[u] = 0
        /\ op[u].handle = op[t].handle
        /\ ModelOfCall(t).layers_length >= 2

(***************************************************************************)
(* The body cursor.                                                        *)
(***************************************************************************)
\* the step dispatches a layer of the run task t is in
Dispatches(t) ==
    /\ op[t].name = "run"
    /\ pc[t] \in {"run_crit", "run_step"}
    /\ dispatched' = Append(dispatched, ctx_.current_layer)

\* C23: in every run, whatever calls preceded it, layer k is dispatched with
\* the body pointer body_start + sum of body_size[j] for j < k of the model
\* being run, and the dispatch leaves current_layer = k + 1 and the cursor
\* advanced by body_size[k], whatever the type of the layer.
C23_BodyCursor ==
    [][\A t \in Tasks :
          Dispatches(t) =>
              LET m == ModelOfCall(t)
                  k == Len(dispatched)
                  start == handles[op[t].handle].body_start_
              IN  /\ k < m.layers_length
                  /\ ctx_.current_layer = k
                  /\ ctx_.current_body = PtrAdd(start, BodyOffset(m.layers, k))
                  /\ ctx_'.current_layer = k + 1
                  /\ ctx_'.current_body =
                        PtrAdd(start, BodyOffset(m.layers, k) + m.layers[k + 1].body_size)]_vars

\* the second call on the device is a run that has dispatched a convolutional
\* and an auxiliary layer, after a call on another model has returned
C23_Witness ==
    \E t \in Tasks, u \in Tasks :
        /\ t # u
        /\ InRun(t) /\ Len(dispatched) >= 2
        /\ ModelOfCall(t).layers[2].type # KL_K210_CONV
        /\ pc[u] = "returned" /\ ret[u] = 0
        /\ op[u].handle # op[t].handle
        /\ ctx_.current_layer = Len(dispatched)

(***************************************************************************)
(* The layout of an uploaded tensor.                                       *)
(***************************************************************************)
\* the offset from dest the layout gives element (c, y, x) of a tensor of the
\* given width and height
LayoutOffset(width, height, c, y, x) ==
    LET row_padding == IF width <= 16 THEN 16 ELSE IF width <= 32 THEN 32 ELSE 64
        row_group == IF width <= 16 THEN 4 ELSE IF width <= 32 THEN 2 ELSE 1
        row_length == IF width <= 32 THEN 1 ELSE (width + 63) \div 64
    IN  (c \div row_group) * row_length * height * 64 + ((c % row_group) * row_padding)
           + y * row_length * 64 + x

\* the elements (c, y, x) of the tensor of kernel_in
Elements ==
    (0..(kernel_in.channels - 1)) \X (0..(kernel_in.height - 1)) \X (0..(kernel_in.width - 1))

\* C24: for every (width, height, channels), kpu_upload_core writes source
\* byte (c, y, x) = src[(c*height + y)*width + x] to the offset the layout
\* gives it, writes no other destination byte, and no two elements share an
\* offset.
C24_UploadLayout ==
    (kernel_pc = "done" /\ kernel_in.kernel = "upload") =>
        LET width == kernel_in.width
            height == kernel_in.height
            at(e) == LayoutOffset(width, height, e[1], e[2], e[3])
        IN  /\ \A e \in Elements :
                  /\ at(e) \in DOMAIN kernel_out
                  /\ kernel_out[at(e)] =
                        SrcByte(kernel_in.seed, (e[1] * height + e[2]) * width + e[3])
            /\ DOMAIN kernel_out = {at(e) : e \in Elements}
            /\ Cardinality({at(e) : e \in Elements}) = Cardinality(Elements)

\* the same, for the calls that take the byte-wise loop or upload one row
UploadLayoutOnByteLoop ==
    (kernel_in.kernel = "upload"
        /\ kernel_in.src % 8 = 0 /\ kernel_in.width % 8 = 0 /\ kernel_in.height > 1)
    \/ C24_UploadLayout

(***************************************************************************)
(* Max pooling.                                                            *)
(***************************************************************************)
\* the elements of the input under the kernel placed for the output at
\* (oc, out_y, out_x), clipped to the input
ClippedWindow(a, oc, out_y, out_x) ==
    LET x0 == out_x * a.stride_width - a.padding_width
        y0 == out_y * a.stride_height - a.padding_height
    IN  {<<oc, y, x>> : y \in {v \in 0..(a.in_height - 1) : y0 <= v /\ v < y0 + a.kernel_height},
                        x \in {v \in 0..(a.in_width - 1) : x0 <= v /\ v < x0 + a.kernel_width}}

\* the shapes agree: the output has the size pooling the input gives
PoolShapesAgree(a) ==
    /\ a.in_width + 2 * a.padding_width >= a.kernel_width
    /\ a.in_height + 2 * a.padding_height >= a.kernel_height
    /\ a.out_width = (a.in_width + 2 * a.padding_width - a.kernel_width) \div a.stride_width + 1
    /\ a.out_height = (a.in_height + 2 * a.padding_height - a.kernel_height) \div a.stride_height + 1

\* the pooled output is the maximum over the clipped windows, and only their
\* elements were read
PooledAsClipped(a) ==
    /\ \A e \in kernel_reads :
          /\ 0 <= e[3] /\ e[3] < a.in_width
          /\ 0 <= e[2] /\ e[2] < a.in_height
    /\ \A oc \in 0..(a.channels - 1), out_y \in 0..(a.out_height - 1),
          out_x \in 0..(a.out_width - 1) :
          LET w == ClippedWindow(a, oc, out_y, out_x)
              n == (oc * a.out_height + out_y) * a.out_width + out_x
              elem(e) == SrcByte(a.seed, (e[1] * a.in_height + e[2]) * a.in_width + e[3])
          IN  /\ w \subseteq kernel_reads
              /\ kernel_out[n] = IF w = {} THEN 0
                                 ELSE CHOOSE m \in {elem(e) : e \in w} :
                                         \A e \in w : elem(e) <= m

\* C25: for every shape, kernel, stride and padding, quantized-max-pool2d
\* reads for each output position only input elements with 0 <= in_x <
\* in_width and 0 <= in_y < in_height of the same channel, and writes the
\* maximum of the elements of the clipped window, or 0 when it is empty.
C25_MaxPoolClipped ==
    (kernel_pc = "done" /\ kernel_in.kernel = "max_pool") => PooledAsClipped(kernel_in)

\* the same, for the layers whose shapes agree
MaxPoolOnAgreeingShapes ==
    (kernel_pc = "done" /\ kernel_in.kernel = "max_pool" /\ PoolShapesAgree(kernel_in))
        => PooledAsClipped(kernel_in)

(***************************************************************************)
(* The output transfer of a convolutional layer.                           *)
(***************************************************************************)
\* the 64-bit beats moved to dest
BeatsMoved == Cardinality(DOMAIN kernel_out) \div 8

\* kpu_conv has run on a main-mem-out layer
MainMemOutDone ==
    kernel_pc = "done" /\ kernel_in.kernel = "conv" /\ kernel_in.main_mem_out

\* C26 as stated: the output DMA of a main-mem-out layer has a length of
\* ceil((dma_total_byte + 8) / 8) beats, for every dma_total_byte.
C26_CeilBeats ==
    MainMemOutDone =>
        \E n \in 0..(MaxTotalByte + 8) :
            /\ BeatsMoved = n
            /\ 8 * (n - 1) < kernel_in.dma_total_byte + 8
            /\ kernel_in.dma_total_byte + 8 <= 8 * n

\* C26, amended: the length is floor((dma_total_byte + 8) / 8) beats, which
\* is ceil((dma_total_byte + 1) / 8): the beats that hold dma_total_byte + 1
\* bytes.
C26_FloorBeats ==
    MainMemOutDone =>
        \E n \in 0..(MaxTotalByte + 8) :
            /\ BeatsMoved = n
            /\ 8 * n <= kernel_in.dma_total_byte + 8
            /\ kernel_in.dma_total_byte + 8 < 8 * (n + 1)
            /\ 8 * (n - 1) < kernel_in.dma_total_byte + 1
            /\ kernel_in.dma_total_byte + 1 <= 8 * n

\* the transfer of a layer with dma_total_byte = 15 was issued: two beats
C26_Witness ==
    /\ MainMemOutDone
    /\ kernel_in.dma_total_byte = 15
    /\ BeatsMoved = 2

(***************************************************************************)
(* Quantization.                                                           *)
(***************************************************************************)
\* kpu_quantize has run
Quantized == kernel_pc = "done" /\ kernel_in.kernel = "quantize"

\* clamp((x - bias) * (1 / scale), 0, 255) for scale = 1 / d, a value ending
\* in .5 going up: x and bias in quarters
QuantizedByte(x, bias, d) ==
    LET v == ((x - bias) * d * 2 + 4) \div 8
    IN  IF v < 0 THEN 0 ELSE IF v > 255 THEN 255 ELSE v

\* C27: quantize maps each input x to the byte clamp((x - bias) * (1/scale),
\* 0, 255), so that bias = 0 and scale = 1/255 take 0.0, 0.5, 1.0 to 0, 128,
\* 255 (127.5 before the conversion yields 128), and every output lies in
\* [0, 255].
C27_Quantize ==
    Quantized =>
        \A i \in 1..Len(kernel_in.src) :
            /\ kernel_out[i - 1] \in 0..255
            /\ kernel_out[i - 1] = QuantizedByte(kernel_in.src[i], kernel_in.bias, kernel_in.scale)

\* every byte quantize writes lies in [0, 255]
QuantizeInRange ==
    Quantized => \A i \in 1..Len(kernel_in.src) : kernel_out[i - 1] \in 0..255

\* bias = 0 and scale = 1/255 take 0.0, 0.5, 1.0 to 0, 127, 254
QuantizeVector ==
    (Quantized /\ kernel_in.src = <<0, 2, 4>> /\ kernel_in.bias = 0 /\ kernel_in.scale = 255)
        => kernel_out = [i \in 0..2 |-> <<0, 127, 254>>[i + 1]]

====
